---- MODULE Spec2Model ----
(***************************************************************************)
(* Bautagebuch (src/app.py): a Flask service that keeps one construction   *)
(* project, its diary entries and its photos, and renders them as PDF.     *)
(*                                                                         *)
(* Conventions of the model                                                *)
(*  - A request handler is one atomic action (requests are processed one   *)
(*    at a time).                                                          *)
(*  - Real numbers (temperature, work_hours, costs) are dyadic: the        *)
(*    integer q stands for q/4.  On these values IEEE double arithmetic    *)
(*    and Python's formatting are exact, so the model computes what the    *)
(*    code computes.                                                       *)
(*  - A date is the day number d of January 2024 (1..31).                  *)
(*  - Lengths of the PDF layout are rationals in centimetres.              *)
(*  - A Python Optional is a record [some, v]; a JSON value of a request   *)
(*    body is a record [t, n, s] with t in absent/null/num/float/str.      *)
(*  - The story built by a report is a sequence of flowable records.       *)
(***************************************************************************)
EXTENDS Integers, Sequences, FiniteSets, TLC

VARIABLES
    projects,   \* rows of table project
    entries,    \* rows of table entry
    photos,     \* rows of table photo
    files,      \* the upload directory: stored filename -> file content
    today,      \* date.today()
    last,       \* the request handled last, with the values its handler observed
    response    \* the response it returned

vars == <<projects, entries, photos, files, today, last, response>>

----------------------------------------------------------------------------
(* Bounds of the model *)

MaxDay == 2          \* dates range over 1..MaxDay
MaxEntries == 2      \* entries stored at once under Spec
MaxPhotos == 1       \* photo rows stored at once under Spec
MaxPageEntries == 7  \* entries stored at once under SpecPages
MaxGallery == 5      \* photo rows stored at once under SpecGallery
MaxStatEntries == 3  \* entries stored at once under SpecStats
MaxDetailEntries == 1 \* entries stored at once under SpecDetails
MaxDim == 12         \* pixel width and height range over 1..MaxDim under SpecScale

----------------------------------------------------------------------------
(* Python values *)

NoneNum == [some |-> FALSE, v |-> 0]
SomeNum(x) == [some |-> TRUE, v |-> x]
NoneStr == [some |-> FALSE, v |-> ""]
SomeStr(x) == [some |-> TRUE, v |-> x]

\* bool(x) of an Optional number: None and 0 are falsy
TruthyNum(o) == o.some /\ o.v # 0
\* bool(x) of an Optional string: None and "" are falsy
TruthyStr(o) == o.some /\ o.v # ""

\* x or 0
OrZero(o) == IF TruthyNum(o) THEN o.v ELSE 0

Abs(n) == IF n < 0 THEN -n ELSE n
Max(S) == CHOOSE x \in S : \A y \in S : y <= x
Min(S) == CHOOSE x \in S : \A y \in S : x <= y

RECURSIVE Gcd(_, _)
Gcd(a, b) == IF b = 0 THEN a ELSE Gcd(b, a % b)

----------------------------------------------------------------------------
(* JSON values of a request body *)

Absent == [t |-> "absent", n |-> 0, s |-> ""]
Null == [t |-> "null", n |-> 0, s |-> ""]
\* a JSON number q/4 written without ".0" when it is whole (5, 12.5): json
\* gives an int for a whole one
Num(q) == [t |-> "num", n |-> q, s |-> ""]
\* a JSON number q/4 written with its fraction (5.0, 12.5): json gives a float
Float(q) == [t |-> "float", n |-> q, s |-> ""]
Str(x) == [t |-> "str", n |-> 0, s |-> x]

\* bool(data.get(k)): a missing key, null, the number 0 and "" are falsy
TruthyJson(j) ==
    CASE j.t \in {"num", "float"} -> j.n # 0
      [] j.t = "str" -> j.s # ""
      [] OTHER -> FALSE

----------------------------------------------------------------------------
(* Formatting *)

Pad2(n) == IF n < 10 THEN "0" \o ToString(n) ELSE ToString(n)

\* date.strftime('%d.%m.%Y')
strftime_dmY(d) == Pad2(d) \o ".01.2024"
\* date.strftime('%Y-%m-%d')
strftime_Ymd(d) == "2024-01-" \o Pad2(d)
\* date.strftime('%Y%m%d')
strftime_compact(d) == "202401" \o Pad2(d)

Sign(q) == IF q < 0 THEN "-" ELSE ""

\* repr of the float q/4, as in f"{x}"
FloatRepr(q) ==
    Sign(q) \o ToString(Abs(q) \div 4) \o
    (CASE Abs(q) % 4 = 0 -> ".0"
       [] Abs(q) % 4 = 1 -> ".25"
       [] Abs(q) % 4 = 2 -> ".5"
       [] OTHER -> ".75")

\* the text SQLite keeps for a number bound to a VARCHAR or TEXT column: that
\* of the integer for an int, the repr for a float
NumText(j) ==
    IF j.t = "num" /\ j.n % 4 = 0
    THEN Sign(j.n) \o ToString(Abs(j.n) \div 4)
    ELSE FloatRepr(j.n)

\* data.get(k) of a text field as the column reads it back: None for a missing
\* key and for null, the string, the text of a number
GetStr(j) ==
    CASE j.t = "str" -> SomeStr(j.s)
      [] j.t \in {"num", "float"} -> SomeStr(NumText(j))
      [] OTHER -> NoneStr

\* f"{x:.2f}" of the float q/4
Format2f(q) ==
    Sign(q) \o ToString(Abs(q) \div 4) \o
    (CASE Abs(q) % 4 = 0 -> ".00"
       [] Abs(q) % 4 = 1 -> ".25"
       [] Abs(q) % 4 = 2 -> ".50"
       [] OTHER -> ".75")

\* f"{x:.1f}" of the float q/4: a tie (.25, .75) rounds to the even digit
Format1f(q) ==
    Sign(q) \o ToString(Abs(q) \div 4) \o
    (CASE Abs(q) % 4 = 0 -> ".0"
       [] Abs(q) % 4 = 1 -> ".2"
       [] Abs(q) % 4 = 2 -> ".5"
       [] OTHER -> ".8")

----------------------------------------------------------------------------
(* Parsing *)

ParseError == [ok |-> FALSE, v |-> 0]
Parsed(x) == [ok |-> TRUE, v |-> x]

\* the texts strptime reads as day d of January 2024: the month with or
\* without its leading zero, the day with it, without it, or with a blank in
\* its place
DateTexts(d) ==
    {"2024-" \o m \o "-" \o day :
        m \in {"01", "1"},
        day \in {Pad2(d), ToString(d)} \cup
                (IF d < 10 THEN {" " \o ToString(d)} ELSE {})}

\* datetime.strptime(s, '%Y-%m-%d').date(), on texts in ASCII that name a day
\* of January 2024 or no date at all.  The dates of the model are the days of
\* that month: texts naming a day of another month or year, and texts written
\* with digits of another script (which strptime reads as well), are outside
\* the model and no request carries one.
strptime_Ymd(s) ==
    IF \E d \in 1..31 : s \in DateTexts(d)
    THEN Parsed(CHOOSE d \in 1..31 : s \in DateTexts(d))
    ELSE ParseError

\* float(s) of a string, on the literals the requests of the model carry
FloatOfString(s) ==
    CASE s = "0" -> Parsed(0)
      [] s = "0.0" -> Parsed(0)
      [] s = "7.25" -> Parsed(29)
      [] s = "8" -> Parsed(32)
      [] s = "12.5" -> Parsed(50)
      [] s = "-1.5" -> Parsed(-6)
      [] s = "49.5" -> Parsed(198)
      [] s = "100.5" -> Parsed(402)
      [] OTHER -> ParseError

\* float(x) of a truthy JSON value
float(j) == IF j.t \in {"num", "float"} THEN Parsed(j.n) ELSE FloatOfString(j.s)

\* int(s) of a string, on the literals the requests of the model carry
IntOfString(s) ==
    CASE s = "0" -> Parsed(0)
      [] s = "3" -> Parsed(3)
      [] s = "8" -> Parsed(8)
      [] OTHER -> ParseError

\* int(x) of a truthy JSON value: a number is truncated towards zero
int(j) ==
    IF j.t \in {"num", "float"}
    THEN Parsed(IF j.n >= 0 THEN j.n \div 4 ELSE -((-j.n) \div 4))
    ELSE IntOfString(j.s)

\* float(data[k]) if data.get(k) else None
OptFloat(j) ==
    IF TruthyJson(j)
    THEN [ok |-> float(j).ok, val |-> SomeNum(float(j).v)]
    ELSE [ok |-> TRUE, val |-> NoneNum]

\* int(data[k]) if data.get(k) else None
OptInt(j) ==
    IF TruthyJson(j)
    THEN [ok |-> int(j).ok, val |-> SomeNum(int(j).v)]
    ELSE [ok |-> TRUE, val |-> NoneNum]

----------------------------------------------------------------------------
(* Records of the store *)

\* Project(): the column defaults
DefaultProject(id) ==
    [id |-> id,
     name |-> "Mein Bauprojekt",
     builder_name |-> "Max Mustermann",
     start_date |-> today,
     status |-> "In Bearbeitung",
     description |-> NoneStr]

\* the id SQLite gives a new row: one more than the largest in the table
NextId(rows) == IF rows = {} THEN 1 ELSE Max({r.id : r \in rows}) + 1

\* Project.query.first(), on a non-empty table
FirstProject(ps) == CHOOSE p \in ps : \A q \in ps : p.id <= q.id

\* a lookup that adds a Project row on every call
ProjectsAlwaysNew == projects \cup {DefaultProject(NextId(projects))}

\* get_or_create_project(): the table afterwards
ProjectsAfterGet == IF projects = {} THEN {DefaultProject(1)} ELSE projects

\* get_or_create_project(): the project returned
get_or_create_project == FirstProject(ProjectsAfterGet)

\* a query without order_by: the rows in id order
RECURSIVE OrderById(_)
OrderById(rows) ==
    IF rows = {} THEN <<>>
    ELSE LET first == CHOOSE r \in rows : \A o \in rows : r.id <= o.id
         IN <<first>> \o OrderById(rows \ {first})

\* order_by(Entry.date.asc()): ascending date, rows of equal date in id order
RECURSIVE OrderByDate(_)
OrderByDate(rows) ==
    IF rows = {} THEN <<>>
    ELSE LET first == CHOOSE r \in rows : \A o \in rows :
                          \/ r.date < o.date
                          \/ r.date = o.date /\ r.id <= o.id
         IN <<first>> \o OrderByDate(rows \ {first})

\* order_by(Photo.date_taken.asc()): ascending date, rows of equal date in id order
RECURSIVE OrderByDateTaken(_)
OrderByDateTaken(rows) ==
    IF rows = {} THEN <<>>
    ELSE LET first == CHOOSE r \in rows : \A o \in rows :
                          \/ r.date_taken < o.date_taken
                          \/ r.date_taken = o.date_taken /\ r.id <= o.id
         IN <<first>> \o OrderByDateTaken(rows \ {first})

\* order_by(Entry.date.desc()): descending date, rows of equal date in id order
RECURSIVE OrderByDateDesc(_)
OrderByDateDesc(rows) ==
    IF rows = {} THEN <<>>
    ELSE LET first == CHOOSE r \in rows : \A o \in rows :
                          \/ r.date > o.date
                          \/ r.date = o.date /\ r.id <= o.id
         IN <<first>> \o OrderByDateDesc(rows \ {first})

\* order_by(Photo.date_taken.desc()): descending date, rows of equal date in id
\* order
RECURSIVE OrderByDateTakenDesc(_)
OrderByDateTakenDesc(rows) ==
    IF rows = {} THEN <<>>
    ELSE LET first == CHOOSE r \in rows : \A o \in rows :
                          \/ r.date_taken > o.date_taken
                          \/ r.date_taken = o.date_taken /\ r.id <= o.id
         IN <<first>> \o OrderByDateTakenDesc(rows \ {first})

\* Entry.query.filter_by(project_id=project.id).order_by(Entry.date.asc()).all()
EntriesOf(project) == OrderByDate({e \in entries : e.project_id = project.id})
\* Photo.query.filter_by(project_id=project.id).order_by(Photo.date_taken.asc()).all()
PhotosOf(project) == OrderByDateTaken({p \in photos : p.project_id = project.id})

\* Model.query.get(id)
EntryById(id) == {e \in entries : e.id = id}
PhotoById(id) == {p \in photos : p.id = id}

----------------------------------------------------------------------------
(* Requests and responses *)

NoBody == [success |-> TRUE, message |-> ""]

Request(op, id, fault) ==
    [op |-> op, id |-> id, fault |-> fault, path |-> "", existed |-> FALSE]

Json(status, body) == [status |-> status, kind |-> "json", body |-> body]
Pdf(story, origin, filename) ==
    [status |-> 200, kind |-> "pdf",
     body |-> [story |-> story, origin |-> origin, filename |-> filename]]

\* the errorhandler(404)
not_found == Json(404, [error |-> "Nicht gefunden"])
\* the errorhandler(500)
internal_error == Json(500, [error |-> "Interner Serverfehler"])

----------------------------------------------------------------------------
(* Flowables of a report.  Table styles and column widths are left out.     *)
(* Beside the story a report keeps, for every flowable, the place of the   *)
(* handler that appended it (origin): the part of the document and, in a    *)
(* loop, the 1-based number of the row being rendered.                      *)

Paragraph(text, style) == [kind |-> "Paragraph", text |-> text, style |-> style]
Spacer(height) == [kind |-> "Spacer", height |-> height]
PageBreak == [kind |-> "PageBreak"]
Table(rows) == [kind |-> "Table", rows |-> rows]
Image(path, width, height) ==
    [kind |-> "Image", path |-> path, width |-> width, height |-> height]

At(part, k) == [part |-> part, k |-> k]
Emit(flowables, at) == [j \in 1..Len(flowables) |-> [f |-> flowables[j], at |-> at]]
When(cond, seq) == IF cond THEN seq ELSE <<>>

RECURSIVE Flatten(_)
Flatten(seqs) == IF seqs = <<>> THEN <<>> ELSE Head(seqs) \o Flatten(Tail(seqs))

RECURSIVE SumSeq(_)
SumSeq(xs) == IF xs = <<>> THEN 0 ELSE Head(xs) + SumSeq(Tail(xs))

\* os.path.join(app.config['UPLOAD_FOLDER'], filename)
PathOf(filename) == "static/uploads/" \o filename

----------------------------------------------------------------------------
(* Scaling of an image into the box of max_width x max_height *)

max_width == 8       \* cm
max_height == 6      \* cm
photos_per_page == 4
entries_per_page == 3

\* the rational n/d in lowest terms
Frac(n, d) == [n |-> n \div Gcd(n, d), d |-> d \div Gcd(n, d)]

\* a scaling that always clamps the height
DisplaySizeHeightOnly(img_width, img_height) ==
    [width |-> Frac(max_height * img_width, img_height),
     height |-> Frac(max_height, 1)]

\* export_pdf, lines 549-559: pdf_width and pdf_height of an image of
\* img_width x img_height pixels.  aspect > max_width / max_height is
\* decided on the exact quotients.
DisplaySize(img_width, img_height) ==
    IF img_width * max_height > max_width * img_height
    THEN [width |-> Frac(max_width, 1),
          height |-> Frac(max_width * img_height, img_width)]
    ELSE [width |-> Frac(max_height * img_width, img_height),
          height |-> Frac(max_height, 1)]

----------------------------------------------------------------------------
(* export_pdf *)

\* str.replace(' ', '_') on the project names of the model
ReplaceSpaces(s) ==
    CASE s = "Mein Bauprojekt" -> "Mein_Bauprojekt"
      [] s = "Haus am See" -> "Haus_am_See"
      [] OTHER -> s

\* lines 413-438: title and project information
TitleBlock(project) ==
    << Paragraph("Bautagebuch", "CustomTitle"),
       Paragraph("Projekt: " \o project.name, "CustomHeading"),
       Spacer(20),
       Paragraph("Projektinformationen", "CustomHeading"),
       Table(<< <<"Projektname:", project.name>>,
                <<"Bauherr:", project.builder_name>>,
                <<"Startdatum:", strftime_dmY(project.start_date)>>,
                <<"Status:", project.status>>,
                <<"Beschreibung:", IF TruthyStr(project.description)
                                   THEN project.description.v
                                   ELSE "Keine Beschreibung">> >>),
       Spacer(20) >>

\* lines 441-445: the totals of the statistics block
PdfStats(project, elist, plist) ==
    [total_entries |-> Len(elist),
     total_photos |-> Len(plist),
     project_days |-> (today - project.start_date) + 1,
     total_costs |-> SumSeq([j \in 1..Len(elist) |-> OrZero(elist[j].costs)]),
     total_hours |-> SumSeq([j \in 1..Len(elist) |-> OrZero(elist[j].work_hours)])]

\* lines 447-468: the statistics block
StatsBlock(st) ==
    << Paragraph("Projektstatistiken", "CustomHeading"),
       Table(<< <<"Gesamte Einträge:", ToString(st.total_entries)>>,
                <<"Gesamte Fotos:", ToString(st.total_photos)>>,
                <<"Projekttage:", ToString(st.project_days)>>,
                <<"Gesamtkosten:", Format2f(st.total_costs) \o " €">>,
                <<"Gesamtarbeitsstunden:", Format1f(st.total_hours) \o " h">> >>),
       PageBreak >>

\* lines 482-493: entry_data, the rows of the details table of an entry
entry_data(entry) ==
    When(TruthyStr(entry.weather), << <<"Wetter:", entry.weather.v>> >>)
    \o When(TruthyNum(entry.temperature),
            << <<"Temperatur:", FloatRepr(entry.temperature.v) \o "°C">> >>)
    \o When(TruthyNum(entry.workers_count),
            << <<"Arbeiter:", ToString(entry.workers_count.v)>> >>)
    \o When(TruthyNum(entry.work_hours),
            << <<"Arbeitsstunden:", FloatRepr(entry.work_hours.v) \o " h">> >>)
    \o When(TruthyNum(entry.costs),
            << <<"Kosten:", Format2f(entry.costs.v) \o " €">> >>)

\* a break after every third entry, the last one too
EntryBreakAlsoLast(i, n) == (i + 1) % entries_per_page = 0

\* line 527: the page break after the entry of index i (0-based) of n
EntryBreak(i, n) == (i + 1) % entries_per_page = 0 /\ i < n - 1

\* lines 474-528: one pass of the loop over the entries, i 0-based
EntryBlock(i, entry, n) ==
    << Paragraph("Eintrag " \o ToString(i + 1) \o ": " \o strftime_dmY(entry.date),
                 "CustomSubHeading") >>
    \o When(entry_data(entry) # <<>>, << Table(entry_data(entry)), Spacer(8) >>)
    \o << Paragraph("<b>Arbeitsinhalt:</b>", "CustomNormal"),
          Paragraph(entry.content, "CustomNormal"),
          Spacer(6) >>
    \o When(TruthyStr(entry.materials),
            << Paragraph("<b>Materialien:</b>", "CustomNormal"),
               Paragraph(entry.materials.v, "CustomNormal"),
               Spacer(6) >>)
    \o When(TruthyStr(entry.notes),
            << Paragraph("<b>Notizen:</b>", "CustomNormal"),
               Paragraph(entry.notes.v, "CustomNormal"),
               Spacer(6) >>)
    \o << Spacer(15) >>
    \o When(EntryBreak(i, n), << PageBreak >>)

\* lines 565-568 and 590-593: the caption of a photo
PhotoText(photo, note) ==
    "<b>" \o photo.original_filename \o "</b>" \o note \o "<br/>"
    \o "Datum: " \o strftime_dmY(photo.date_taken) \o "<br/>"
    \o (IF photo.description # "" THEN "Beschreibung: " \o photo.description ELSE "")

\* line 585: the page break after the photo of index i (0-based) of n
PhotoBreak(i, n) == (i + 1) % photos_per_page = 0 /\ i < n - 1

\* lines 589-596: the except branch of the loop over the photos
PhotoError(photo) ==
    << Paragraph(PhotoText(photo, " (Bild konnte nicht geladen werden)"),
                 "CustomNormal"),
       Spacer(12) >>

\* lines 561-586: the image and its caption, side by side
PhotoLoaded(i, photo, n, image) ==
    LET size == DisplaySize(image.width, image.height)
    IN << Table(<< << Image(PathOf(photo.filename), size.width, size.height),
                      Paragraph(PhotoText(photo, ""), "CustomNormal") >> >>),
          Spacer(12) >>
       \o When(PhotoBreak(i, n), << PageBreak >>)

\* lines 537-596: one pass of the loop over the photos, i 0-based.
\* PILImage.open raises on a file that is no image.
PhotoBlock(i, photo, n) ==
    IF photo.filename \in DOMAIN files
    THEN IF files[photo.filename].readable
         THEN PhotoLoaded(i, photo, n, files[photo.filename])
         ELSE PhotoError(photo)
    ELSE <<>>

\* lines 410-596: the story, every flowable with its origin
PdfItems(project, elist, plist) ==
    Emit(TitleBlock(project), At("project", 0))
    \o Emit(StatsBlock(PdfStats(project, elist, plist)), At("stats", 0))
    \o Emit(<< Paragraph("Bautagebuch-Einträge", "CustomHeading"), Spacer(12) >>,
            At("entries", 0))
    \o Flatten([j \in 1..Len(elist) |->
                  Emit(EntryBlock(j - 1, elist[j], Len(elist)), At("entry", j))])
    \o When(plist # <<>>,
            Emit(<< PageBreak, Paragraph("Projektfotos", "CustomHeading"), Spacer(12) >>,
                 At("photos", 0))
            \o Flatten([j \in 1..Len(plist) |->
                  Emit(PhotoBlock(j - 1, plist[j], Len(plist)), At("photo", j))]))

StoryOf(items) == [j \in 1..Len(items) |-> items[j].f]
OriginOf(items) == [j \in 1..Len(items) |-> items[j].at]

\* line 603
PdfFilename(project) ==
    "Bautagebuch_" \o ReplaceSpaces(project.name) \o "_"
    \o strftime_compact(today) \o ".pdf"

----------------------------------------------------------------------------
(* Handlers of the project and of the entries *)

ProjectJson(project) ==
    [id |-> project.id,
     name |-> project.name,
     builder_name |-> project.builder_name,
     start_date |-> strftime_Ymd(project.start_date),
     status |-> project.status,
     description |-> project.description]

\* GET /api/project
get_project ==
    /\ projects' = ProjectsAfterGet
    /\ last' = Request("get_project", 0, "none")
    /\ response' = Json(200, ProjectJson(get_or_create_project))
    /\ UNCHANGED <<entries, photos, files, today>>

\* data.get(key, current) of a text column as the column reads it back:
\* current for a missing key, None for null, the string, the text of a number
GetOr(j, current) == IF j.t = "absent" THEN current ELSE GetStr(j)

\* PUT /api/project.  strptime raises on a start_date that is no date, and the
\* commit fails on None in a NOT NULL column (name, builder_name, status): the
\* request ends in the 500 handler and the session is rolled back.
update_project(data) ==
    LET project == get_or_create_project
        start == strptime_Ymd(data.start_date.s)
        name == GetOr(data.name, SomeStr(project.name))
        builder_name == GetOr(data.builder_name, SomeStr(project.builder_name))
        status == GetOr(data.status, SomeStr(project.status))
        failed == \/ data.start_date.t # "absent" /\ ~start.ok
                  \/ ~name.some
                  \/ ~builder_name.some
                  \/ ~status.some
        updated ==
            [project EXCEPT
                !.name = name.v,
                !.builder_name = builder_name.v,
                !.start_date = IF data.start_date.t = "absent" THEN @ ELSE start.v,
                !.status = status.v,
                !.description = GetOr(data.description, @)]
    IN /\ projects' = IF failed THEN ProjectsAfterGet
                      ELSE (ProjectsAfterGet \ {project}) \cup {updated}
       /\ last' = Request("update_project", 0, "none")
       /\ response' = IF failed THEN internal_error
                      ELSE Json(200, [success |-> TRUE, message |-> "Projekt aktualisiert"])
       /\ UNCHANGED <<entries, photos, files, today>>

EntryJson(entry) ==
    [id |-> entry.id,
     date |-> strftime_Ymd(entry.date),
     weather |-> entry.weather,
     temperature |-> entry.temperature,
     content |-> entry.content,
     workers_count |-> entry.workers_count,
     materials |-> entry.materials,
     work_hours |-> entry.work_hours,
     costs |-> entry.costs,
     notes |-> entry.notes]

\* GET /api/entries: order_by(Entry.date.desc())
get_entries ==
    LET project == get_or_create_project
        rows == OrderByDateDesc({e \in entries : e.project_id = project.id})
    IN /\ projects' = ProjectsAfterGet
       /\ last' = Request("get_entries", 0, "none")
       /\ response' = Json(200, [j \in 1..Len(rows) |-> EntryJson(rows[j])])
       /\ UNCHANGED <<entries, photos, files, today>>

\* lines 159-170: the first expression of Entry(...) that raises, or "" if none
\* does; a null content fails the NOT NULL column at the commit.
EntryFailure(data) ==
    CASE data.date.t # "str" \/ ~strptime_Ymd(data.date.s).ok -> "date"
      [] ~OptFloat(data.temperature).ok -> "temperature"
      [] data.content.t = "absent" -> "content"
      [] ~OptInt(data.workers_count).ok -> "workers_count"
      [] ~OptFloat(data.work_hours).ok -> "work_hours"
      [] ~OptFloat(data.costs).ok -> "costs"
      [] data.content.t = "null" -> "commit"
      [] OTHER -> ""

\* lines 159-170: the Entry built from the request body
NewEntry(id, project, data) ==
    [id |-> id,
     project_id |-> project.id,
     date |-> strptime_Ymd(data.date.s).v,
     weather |-> GetStr(data.weather),
     temperature |-> OptFloat(data.temperature).val,
     content |-> GetStr(data.content).v,
     workers_count |-> OptInt(data.workers_count).val,
     materials |-> GetStr(data.materials),
     work_hours |-> OptFloat(data.work_hours).val,
     costs |-> OptFloat(data.costs).val,
     notes |-> GetStr(data.notes)]

\* a create that keeps one entry a day: the new row replaces those of its date
create_entry_replacing_day(data, cap) ==
    LET project == get_or_create_project
        id == NextId(entries)
        failure == EntryFailure(data)
        entry == NewEntry(id, project, data)
    IN /\ id <= cap
       /\ projects' = ProjectsAfterGet
       /\ entries' = IF failure = ""
                     THEN {e \in entries : e.date # entry.date} \cup {entry}
                     ELSE entries
       /\ last' = Request("create_entry", IF failure = "" THEN id ELSE 0, "none")
       /\ response' =
            IF failure = ""
            THEN Json(200, [success |-> TRUE, message |-> "Eintrag erstellt",
                            entry_id |-> id])
            ELSE Json(400, [success |-> FALSE, error |-> failure])
       /\ UNCHANGED <<photos, files, today>>

\* POST /api/entries.  cap bounds the ids of the model.
create_entry(data, cap) ==
    LET project == get_or_create_project
        id == NextId(entries)
        failure == EntryFailure(data)
    IN /\ id <= cap
       /\ projects' = ProjectsAfterGet
       /\ entries' = IF failure = "" THEN entries \cup {NewEntry(id, project, data)}
                     ELSE entries
       /\ last' = Request("create_entry", IF failure = "" THEN id ELSE 0, "none")
       /\ response' =
            IF failure = ""
            THEN Json(200, [success |-> TRUE, message |-> "Eintrag erstellt",
                            entry_id |-> id])
            ELSE Json(400, [success |-> FALSE, error |-> failure])
       /\ UNCHANGED <<photos, files, today>>

\* DELETE /api/entries/<entry_id>
delete_entry(entry_id) ==
    /\ entries' = entries \ EntryById(entry_id)
    /\ last' = Request("delete_entry", entry_id, "none")
    /\ response' = IF EntryById(entry_id) = {} THEN not_found
                   ELSE Json(200, [success |-> TRUE, message |-> "Eintrag gelöscht"])
    /\ UNCHANGED <<projects, photos, files, today>>

\* a sum that one NULL turns into NULL
SqlSumNullWins(values) ==
    LET RECURSIVE Total(_)
        Total(S) == IF S = {} THEN 0
                    ELSE LET r == CHOOSE r \in S : TRUE IN r.v + Total(S \ {r})
    IN IF values = {} \/ \E r \in values : ~r.v.some THEN NoneNum
       ELSE SomeNum(Total({[id |-> r.id, v |-> r.v.v] : r \in values}))

\* SUM(column) of SQL: NULL over no rows and over rows that are all NULL
SqlSum(values) ==
    LET RECURSIVE Total(_)
        Total(S) == IF S = {} THEN 0
                    ELSE LET r == CHOOSE r \in S : TRUE IN r.v + Total(S \ {r})
        given == {r \in values : r.v.some}
    IN IF given = {} THEN NoneNum
       ELSE SomeNum(Total({[id |-> r.id, v |-> r.v.v] : r \in given}))

\* GET /api/stats
get_stats ==
    LET project == get_or_create_project
        mine == {e \in entries : e.project_id = project.id}
        body ==
            [total_entries |-> Cardinality(mine),
             total_photos |-> Cardinality({p \in photos : p.project_id = project.id}),
             project_days |-> (today - project.start_date) + 1,
             total_costs |-> OrZero(SqlSum({[id |-> e.id, v |-> e.costs] : e \in mine})),
             total_hours |-> OrZero(SqlSum({[id |-> e.id, v |-> e.work_hours] : e \in mine})),
             completion |-> 65]
    IN /\ projects' = ProjectsAfterGet
       /\ last' = Request("get_stats", 0, "none")
       /\ response' = Json(200, body)
       /\ UNCHANGED <<entries, photos, files, today>>

----------------------------------------------------------------------------
(* Handlers of the photos.  An uploaded file is [present, parts, content]:  *)
(* parts are the pieces of its filename between the dots, content is        *)
(* [readable, width, height], readable being whether PIL can open it.       *)

ALLOWED_EXTENSIONS == {"png", "jpg", "jpeg", "gif", "bmp", "webp"}

RECURSIVE JoinDots(_)
JoinDots(parts) ==
    IF parts = <<>> THEN ""
    ELSE IF Len(parts) = 1 THEN parts[1]
    ELSE parts[1] \o "." \o JoinDots(Tail(parts))

\* str.lower(), on the extensions of the model
lower(s) ==
    CASE s = "JPG" -> "jpg"
      [] s = "PNG" -> "png"
      [] OTHER -> s

\* allowed_file(filename)
allowed_file(parts) == Len(parts) > 1 /\ lower(parts[Len(parts)]) \in ALLOWED_EXTENSIONS

\* werkzeug's secure_filename, on the filenames of the model
secure_filename(name) ==
    CASE name = "Giebel Nord.png" -> "Giebel_Nord.png"
      [] OTHER -> name

\* uuid.uuid4().hex: a token no stored filename carries
UsedNames == DOMAIN files \cup {p.filename : p \in photos}
TokenName(k, ext) == "u" \o ToString(k) \o "." \o ext
FreshToken ==
    Min({k \in 1..(Cardinality(UsedNames) + 1) :
            \A ext \in ALLOWED_EXTENSIONS : TokenName(k, ext) \notin UsedNames})

Put(dir, name, content) ==
    [f \in DOMAIN dir \cup {name} |-> IF f = name THEN content ELSE dir[f]]
Remove(dir, name) == [f \in DOMAIN dir \ {name} |-> dir[f]]

\* a removal that forgets the file
KeepFile(dir, name) == dir

\* lines 269-270: if os.path.exists(file_path): os.remove(file_path)
RemoveIfExists(dir, name) == IF name \in DOMAIN dir THEN Remove(dir, name) ELSE dir

PhotoJson(photo) ==
    [id |-> photo.id,
     filename |-> photo.filename,
     original_filename |-> photo.original_filename,
     description |-> photo.description,
     date_taken |-> strftime_Ymd(photo.date_taken),
     file_size |-> photo.file_size,
     url |-> "/static/uploads/" \o photo.filename]

\* GET /api/photos: order_by(Photo.date_taken.desc())
get_photos ==
    LET project == get_or_create_project
        rows == OrderByDateTakenDesc({p \in photos : p.project_id = project.id})
    IN /\ projects' = ProjectsAfterGet
       /\ last' = Request("get_photos", 0, "none")
       /\ response' = Json(200, [j \in 1..Len(rows) |-> PhotoJson(rows[j])])
       /\ UNCHANGED <<entries, photos, files, today>>

\* POST /api/photos.  fault is what fails in the try block: nothing ("none"),
\* file.save ("save") or db.session.commit ("commit"); the except branch rolls
\* back and removes the file if it is there.  cap bounds the ids of the model.
upload_photo(file, description, fault, cap) ==
    IF ~file.present
    THEN /\ last' = Request("upload_photo", 0, fault)
         /\ response' = Json(400, [success |-> FALSE, error |-> "Keine Datei ausgewählt"])
         /\ UNCHANGED <<projects, entries, photos, files, today>>
    ELSE IF JoinDots(file.parts) = "" \/ ~allowed_file(file.parts)
    THEN /\ last' = Request("upload_photo", 0, fault)
         /\ response' = Json(400, [success |-> FALSE, error |-> "Ungültiger Dateityp"])
         /\ UNCHANGED <<projects, entries, photos, files, today>>
    ELSE LET project == get_or_create_project
             id == NextId(photos)
             unique_filename == TokenName(FreshToken, lower(file.parts[Len(file.parts)]))
             photo == [id |-> id,
                       project_id |-> project.id,
                       filename |-> unique_filename,
                       original_filename |-> secure_filename(JoinDots(file.parts)),
                       description |-> description,
                       date_taken |-> today,
                       file_size |-> file.content.size]
         IN /\ id <= cap
            /\ projects' = ProjectsAfterGet
            /\ last' = [Request("upload_photo", IF fault = "none" THEN id ELSE 0, fault)
                          EXCEPT !.path = PathOf(unique_filename)]
            /\ IF fault = "none"
               THEN /\ files' = Put(files, unique_filename, file.content)
                    /\ photos' = photos \cup {photo}
                    /\ response' = Json(200, [success |-> TRUE,
                                              message |-> "Foto hochgeladen",
                                              photo |-> [id |-> id,
                                                         filename |-> unique_filename,
                                                         url |-> "/static/uploads/" \o
                                                                 unique_filename]])
               ELSE /\ files' = files
                    /\ photos' = photos
                    /\ response' = Json(500, [success |-> FALSE, error |-> fault])
            /\ UNCHANGED <<entries, today>>

\* DELETE /api/photos/<photo_id>.  fault is what fails in the try block:
\* nothing ("none"), os.remove ("remove") or db.session.commit ("commit").
delete_photo(photo_id, fault) ==
    IF PhotoById(photo_id) = {}
    THEN /\ last' = Request("delete_photo", photo_id, fault)
         /\ response' = not_found
         /\ UNCHANGED <<projects, entries, photos, files, today>>
    ELSE LET photo == CHOOSE p \in PhotoById(photo_id) : TRUE
             existed == photo.filename \in DOMAIN files
         IN /\ fault = "remove" => existed
            /\ last' = [Request("delete_photo", photo_id, fault)
                          EXCEPT !.path = PathOf(photo.filename), !.existed = existed]
            /\ files' = IF fault = "remove" THEN files
                        ELSE RemoveIfExists(files, photo.filename)
            /\ photos' = IF fault = "none" THEN photos \ {photo} ELSE photos
            /\ response' = IF fault = "none"
                           THEN Json(200, [success |-> TRUE, message |-> "Foto gelöscht"])
                           ELSE Json(500, [success |-> FALSE, error |-> fault])
            /\ UNCHANGED <<projects, entries, today>>

----------------------------------------------------------------------------
(* Exports *)

\* GET /api/export
export_data ==
    LET project == get_or_create_project
        es == OrderById({e \in entries : e.project_id = project.id})
        ps == OrderById({p \in photos : p.project_id = project.id})
    IN /\ projects' = ProjectsAfterGet
       /\ last' = Request("export_data", 0, "none")
       /\ response' =
            Json(200,
                 [project |-> [name |-> project.name,
                               builder_name |-> project.builder_name,
                               start_date |-> strftime_Ymd(project.start_date),
                               status |-> project.status,
                               description |-> project.description],
                  entries |-> [j \in 1..Len(es) |->
                                 [date |-> strftime_Ymd(es[j].date),
                                  weather |-> es[j].weather,
                                  temperature |-> es[j].temperature,
                                  content |-> es[j].content,
                                  workers_count |-> es[j].workers_count,
                                  materials |-> es[j].materials,
                                  work_hours |-> es[j].work_hours,
                                  costs |-> es[j].costs,
                                  notes |-> es[j].notes]],
                  photos |-> [j \in 1..Len(ps) |->
                                 [filename |-> ps[j].original_filename,
                                  description |-> ps[j].description,
                                  date_taken |-> strftime_Ymd(ps[j].date_taken)]]])
       /\ UNCHANGED <<entries, photos, files, today>>

\* GET /api/export/pdf
export_pdf ==
    LET project == get_or_create_project
        items == PdfItems(project, EntriesOf(project), PhotosOf(project))
    IN /\ projects' = ProjectsAfterGet
       /\ last' = Request("export_pdf", 0, "none")
       /\ response' = Pdf(StoryOf(items), OriginOf(items), PdfFilename(project))
       /\ UNCHANGED <<entries, photos, files, today>>

\* lines 647-657: details_data, the rows of the details table
details_data(entry) ==
    When(TruthyStr(entry.weather), << <<"Wetter:", entry.weather.v>> >>)
    \o When(TruthyNum(entry.temperature),
            << <<"Temperatur:", FloatRepr(entry.temperature.v) \o "°C">> >>)
    \o When(TruthyNum(entry.workers_count),
            << <<"Arbeiter:", ToString(entry.workers_count.v)>> >>)
    \o When(TruthyNum(entry.work_hours),
            << <<"Arbeitsstunden:", FloatRepr(entry.work_hours.v) \o " h">> >>)
    \o When(TruthyNum(entry.costs),
            << <<"Kosten:", Format2f(entry.costs.v) \o " €">> >>)

\* an any([...]) that leaves the costs out
AnyDetailButCosts(entry) ==
    \/ TruthyStr(entry.weather)
    \/ TruthyNum(entry.temperature)
    \/ TruthyNum(entry.workers_count)
    \/ TruthyNum(entry.work_hours)

\* line 644: any([weather, temperature, workers_count, work_hours, costs])
AnyDetail(entry) ==
    \/ TruthyStr(entry.weather)
    \/ TruthyNum(entry.temperature)
    \/ TruthyNum(entry.workers_count)
    \/ TruthyNum(entry.work_hours)
    \/ TruthyNum(entry.costs)

\* lines 635-685: the story of the report of one entry
EntryStory(entry, project) ==
    << Paragraph("Bautagebuch-Eintrag", "Title"),
       Paragraph("Projekt: " \o project.name, "Heading1"),
       Paragraph("Datum: " \o strftime_dmY(entry.date), "Heading2"),
       Spacer(20) >>
    \o When(AnyDetail(entry),
            << Paragraph("Details", "Heading2"),
               Table(details_data(entry)),
               Spacer(20) >>)
    \o << Paragraph("Arbeitsinhalt", "Heading2"),
          Paragraph(entry.content, "Normal"),
          Spacer(15) >>
    \o When(TruthyStr(entry.materials),
            << Paragraph("Materialien", "Heading2"),
               Paragraph(entry.materials.v, "Normal"),
               Spacer(15) >>)
    \o When(TruthyStr(entry.notes),
            << Paragraph("Notizen", "Heading2"),
               Paragraph(entry.notes.v, "Normal") >>)

\* str(e) of werkzeug's NotFound
NotFoundText ==
    "404 Not Found: The requested URL was not found on the server. "
    \o "If you entered the URL manually please check your spelling and try again."

\* GET /api/export/pdf/entry/<entry_id>.  get_or_404 is called inside the try
\* block: the NotFound it raises is caught by the except branch of the handler.
export_single_entry_pdf(entry_id) ==
    /\ last' = Request("export_single_entry_pdf", entry_id, "none")
    /\ response' =
         IF EntryById(entry_id) = {}
         THEN Json(500, [success |-> FALSE,
                         error |-> "PDF-Export fehlgeschlagen: " \o NotFoundText])
         ELSE LET entry == CHOOSE e \in EntryById(entry_id) : TRUE
                  project == CHOOSE p \in projects : p.id = entry.project_id
                  story == EntryStory(entry, project)
              IN Pdf(story, [j \in 1..Len(story) |-> At("entry", 1)],
                     "Eintrag_" \o strftime_compact(entry.date) \o ".pdf")
    /\ UNCHANGED <<projects, entries, photos, files, today>>

\* the clock: date.today() moves on to the next day
Midnight ==
    /\ today < MaxDay
    /\ today' = today + 1
    /\ UNCHANGED <<projects, entries, photos, files, last, response>>

----------------------------------------------------------------------------
(* The state after construction: db.create_all() on an empty database and    *)
(* an empty upload folder.                                                   *)

Init ==
    /\ projects = {}
    /\ entries = {}
    /\ photos = {}
    /\ files = <<>>
    /\ today = 1
    /\ last = Request("start", 0, "none")
    /\ response = Json(200, NoBody)

----------------------------------------------------------------------------
(* Request bodies *)

EntryData(date, weather, temperature, content, workers_count, materials,
          work_hours, costs, notes) ==
    [date |-> date, weather |-> weather, temperature |-> temperature,
     content |-> content, workers_count |-> workers_count,
     materials |-> materials, work_hours |-> work_hours, costs |-> costs,
     notes |-> notes]

IsoDay(d) == Str(strftime_Ymd(d))

MinimalEntry(d) ==
    EntryData(IsoDay(d), Absent, Absent, Str("Baustelle eingerichtet"), Absent,
              Absent, Absent, Absent, Absent)
FullEntry(d) ==
    EntryData(IsoDay(d), Str("Sonnig"), Str("12.5"), Str("Fundament gegossen"),
              Str("3"), Str("Beton C25"), Str("7.25"), Str("100.5"),
              Str("Lieferung verspätet"))
ZeroEntry(d) ==
    EntryData(IsoDay(d), Str(""), Str("0"), Str("Frosttag, keine Arbeiten"),
              Str("0"), Str(""), Str("0"), Str("0"), Str(""))

\* bodies of POST /api/entries under Spec: two that are stored, also with
\* their dates written without the leading zero and with a blank for it, and
\* five that fail: no date, no content, a null content, a temperature and a
\* date that do not parse
EntryRequests ==
    {MinimalEntry(1), FullEntry(2),
     [MinimalEntry(1) EXCEPT !.date = Str("2024-1-1")],
     [FullEntry(1) EXCEPT !.date = Str("2024-01- 2")],
     [MinimalEntry(1) EXCEPT !.date = Absent],
     [MinimalEntry(1) EXCEPT !.content = Absent],
     [MinimalEntry(1) EXCEPT !.content = Null],
     [FullEntry(1) EXCEPT !.temperature = Str("warm")],
     [MinimalEntry(1) EXCEPT !.date = Str("gestern")]}

ProjectData(name, builder_name, start_date, status, description) ==
    [name |-> name, builder_name |-> builder_name, start_date |-> start_date,
     status |-> status, description |-> description]

\* bodies of PUT /api/project under Spec
ProjectRequests ==
    {ProjectData(Str("Haus am See"), Str("Erika Musterfrau"), Absent,
                 Str("Abgeschlossen"), Str("Einfamilienhaus")),
     ProjectData(Absent, Absent, Str("morgen"), Absent, Absent),
     ProjectData(Null, Absent, Absent, Absent, Absent),
     ProjectData(Absent, Absent, Str("2024-1-2"), Absent, Absent),
     ProjectData(Absent, Absent, Str("2024-01- 1"), Absent, Absent),
     ProjectData(Num(20), Float(20), Absent, Float(50), Null)}
    \cup {ProjectData(Absent, Absent, IsoDay(d), Absent, Absent) : d \in {1, 2}}

ImageFile(width, height) ==
    [readable |-> TRUE, width |-> width, height |-> height, size |-> width * height]
BrokenFile == [readable |-> FALSE, width |-> 0, height |-> 0, size |-> 1]

Upload(parts, content) == [present |-> TRUE, parts |-> parts, content |-> content]
NoUpload == [present |-> FALSE, parts |-> <<>>, content |-> BrokenFile]

\* files of POST /api/photos that are stored: a photograph, and a file that
\* carries an image extension and is no image
GoodUploads ==
    {Upload(<<"Bad", "JPG">>, ImageFile(1600, 1200)),
     Upload(<<"Giebel Nord", "png">>, BrokenFile)}
\* files of POST /api/photos that are refused
BadUploads ==
    {NoUpload, Upload(<<>>, BrokenFile), Upload(<<"README">>, BrokenFile),
     Upload(<<"plan", "txt">>, BrokenFile)}

UploadFaults == {"none", "save", "commit"}
\* a refused file never reaches the try block
UploadCases ==
    {<<file, "none">> : file \in BadUploads}
    \cup {<<file, fault>> : file \in GoodUploads, fault \in UploadFaults}
DeleteFaults == {"none", "remove", "commit"}

----------------------------------------------------------------------------
(* Spec: every handler, on small inputs, within one day *)

GetProject == get_project
UpdateProject == \E data \in ProjectRequests : update_project(data)
GetEntries == get_entries
CreateEntry == \E data \in EntryRequests : create_entry(data, MaxEntries)
DeleteEntry == \E id \in 1..MaxEntries : delete_entry(id)
GetPhotos == get_photos
UploadPhoto == \E c \in UploadCases : upload_photo(c[1], "", c[2], MaxPhotos)
DeletePhoto == \E id \in 1..MaxPhotos, fault \in DeleteFaults : delete_photo(id, fault)
GetStats == get_stats
ExportData == export_data
ExportPdf == export_pdf
ExportSingleEntryPdf == \E id \in 1..MaxEntries : export_single_entry_pdf(id)

Next ==
    \/ GetProject
    \/ UpdateProject
    \/ GetEntries
    \/ CreateEntry
    \/ DeleteEntry
    \/ GetPhotos
    \/ UploadPhoto
    \/ DeletePhoto
    \/ GetStats
    \/ ExportData
    \/ ExportPdf
    \/ ExportSingleEntryPdf

Spec == Init /\ [][Next]_vars

----------------------------------------------------------------------------
(* SpecGallery: galleries of photos whose files are there, are no images or  *)
(* are gone.  A file goes missing when the commit of a deletion fails, the   *)
(* only failure of a deletion taken here; deletions that succeed or fail     *)
(* otherwise are taken under Spec.                                           *)

UploadGallery ==
    \E file \in GoodUploads, fault \in UploadFaults :
        upload_photo(file, "Rohbau", fault, MaxGallery)
DeleteGallery == \E id \in 1..MaxGallery : delete_photo(id, "commit")

NextGallery ==
    \/ UploadGallery
    \/ DeleteGallery
    \/ ExportPdf

SpecGallery == Init /\ [][NextGallery]_vars

----------------------------------------------------------------------------
(* SpecDetails: entries whose optional fields are missing, empty or zero,    *)
(* or carry a value, and the two reports of them                             *)

DetailFields ==
    {"weather", "temperature", "workers_count", "work_hours", "costs",
     "materials", "notes"}

\* what a field carries beside being left out: an empty or zero value, a value
DetailValues(field) ==
    CASE field = "weather" -> {Str(""), Str("Sonnig")}
      [] field = "temperature" -> {Str("0"), Str("-1.5")}
      [] field = "workers_count" -> {Str("0"), Str("3")}
      [] field = "work_hours" -> {Str("0"), Str("7.25")}
      [] field = "costs" -> {Str("0"), Str("100.5")}
      [] field = "materials" -> {Str(""), Str("Beton C25")}
      [] OTHER -> {Str(""), Str("Lieferung verspätet")}

OneField(data) ==
    UNION {{[data EXCEPT ![f] = v] : v \in DetailValues(f)} : f \in DetailFields}

\* bodies of POST /api/entries under SpecDetails: up to two optional fields
\* given, all given, all empty or zero, and numbers sent as JSON numbers
DetailRequests ==
    {MinimalEntry(1), FullEntry(1), ZeroEntry(1),
     [MinimalEntry(1) EXCEPT !.temperature = Num(0)],
     [MinimalEntry(1) EXCEPT !.weather = Num(0)],
     [MinimalEntry(1) EXCEPT !.weather = Num(20), !.content = Num(20)],
     [MinimalEntry(1) EXCEPT !.weather = Float(0), !.content = Float(20),
                             !.temperature = Float(0), !.workers_count = Float(14)],
     [MinimalEntry(1) EXCEPT !.temperature = Num(50), !.workers_count = Num(12)]}
    \cup OneField(MinimalEntry(1))
    \cup UNION {OneField(data) : data \in OneField(MinimalEntry(1))}

CreateDetailEntry == \E data \in DetailRequests : create_entry(data, MaxDetailEntries)
ExportDetailEntry == \E id \in 1..MaxDetailEntries : export_single_entry_pdf(id)

NextDetails ==
    \/ CreateDetailEntry
    \/ ExportPdf
    \/ ExportDetailEntry

SpecDetails == Init /\ [][NextDetails]_vars

----------------------------------------------------------------------------
(* SpecPages: long diaries, entered in any order of their dates *)

CreatePageEntry == \E d \in 1..MaxDay : create_entry(MinimalEntry(d), MaxPageEntries)

NextPages ==
    \/ CreatePageEntry
    \/ ExportPdf

SpecPages == Init /\ [][NextPages]_vars

----------------------------------------------------------------------------
(* SpecStats: the totals of costs and hours, over several days *)

CostValues == {Absent, Str("0"), Str("49.5"), Str("100.5")}
HourValues == {Absent, Str("7.25")}

CreateStatEntry ==
    \E c \in CostValues, h \in HourValues :
        create_entry([MinimalEntry(1) EXCEPT !.costs = c, !.work_hours = h],
                     MaxStatEntries)

NextStats ==
    \/ CreateStatEntry
    \/ GetStats
    \/ ExportPdf
    \/ Midnight

SpecStats == Init /\ [][NextStats]_vars

----------------------------------------------------------------------------
(* SpecScale: one photograph of every size up to MaxDim x MaxDim pixels *)

UploadScaled ==
    \E w \in 1..MaxDim, h \in 1..MaxDim :
        upload_photo(Upload(<<"Bad", "JPG">>, ImageFile(w, h)), "", "none", 1)

NextScale ==
    \/ UploadScaled
    \/ ExportPdf

SpecScale == Init /\ [][NextScale]_vars

----------------------------------------------------------------------------
(* Reading a response *)

IsPdf == response.kind = "pdf"
Story == response.body.story
Origin == response.body.origin

\* the positions of the story appended at a place of the handler
Placed(part, k) == {j \in 1..Len(Story) : Origin[j] = At(part, k)}

\* whether a flowable of the given kind was appended there
HasKind(part, k, kind) == \E j \in Placed(part, k) : Story[j].kind = kind

\* the project the last report was rendered for
Active == FirstProject(projects)

----------------------------------------------------------------------------
(* C1  export_pdf: a photo whose image file is missing from the upload       *)
(* directory gets a placeholder paragraph with its original filename and     *)
(* its formatted date-taken, and the render succeeds.                        *)

PlaceholderFor(photo) ==
    "<b>" \o photo.original_filename \o "</b> (Bild konnte nicht geladen werden)<br/>"
    \o "Datum: " \o strftime_dmY(photo.date_taken) \o "<br/>"
    \o (IF photo.description # "" THEN "Beschreibung: " \o photo.description ELSE "")

C1_MissingFilePlaceholder ==
    last.op = "export_pdf" =>
        /\ response.status = 200
        /\ IsPdf
        /\ LET plist == PhotosOf(Active)
           IN \A k \in 1..Len(plist) :
                plist[k].filename \notin DOMAIN files =>
                    \E j \in Placed("photo", k) :
                        /\ Story[j].kind = "Paragraph"
                        /\ Story[j].text = PlaceholderFor(plist[k])

----------------------------------------------------------------------------
(* C2  export_pdf: a page break is emitted after the k-th of n photos        *)
(* exactly when k is a multiple of 4 and k < n, whatever the files are.      *)

C2_BreakAfterEveryFourthPhoto ==
    (last.op = "export_pdf" /\ IsPdf) =>
        LET n == Cardinality({p \in photos : p.project_id = Active.id})
        IN \A k \in 1..n :
             HasKind("photo", k, "PageBreak") <=> (k % 4 = 0 /\ k < n)

----------------------------------------------------------------------------
(* C3  export_pdf: the entries are numbered 1..n in ascending order of       *)
(* their dates, and a page break follows the k-th entry exactly when k is a  *)
(* multiple of 3 and k < n; none follows the last entry.                     *)

EntriesShown == {e \in entries : e.project_id = Active.id}

\* the heading of block k carries the number k and the k-th smallest date
HeadingOfRank(text, k) ==
    \E d \in 1..31 :
        /\ text = "Eintrag " \o ToString(k) \o ": " \o strftime_dmY(d)
        /\ Cardinality({e \in EntriesShown : e.date < d}) < k
        /\ k <= Cardinality({e \in EntriesShown : e.date <= d})

C3_EntryPagination ==
    (last.op = "export_pdf" /\ IsPdf) =>
        LET n == Cardinality(EntriesShown)
        IN /\ \A j \in 1..Len(Story) : Origin[j].part = "entry" => Origin[j].k \in 1..n
           /\ ~HasKind("entries", 0, "PageBreak")
           /\ \A k \in 1..n :
                /\ Placed("entry", k) # {}
                /\ Story[Min(Placed("entry", k))].style = "CustomSubHeading"
                /\ HeadingOfRank(Story[Min(Placed("entry", k))].text, k)
                /\ k < n => Max(Placed("entry", k)) < Min(Placed("entry", k + 1))
                /\ HasKind("entry", k, "PageBreak") <=> (k % 3 = 0 /\ k < n)
                /\ \A j \in Placed("entry", k) :
                     Story[j].kind = "PageBreak" => j = Max(Placed("entry", k))

\* a diary of MaxPageEntries entries of more than one date has been rendered
C3_Witness ==
    /\ last.op = "export_pdf"
    /\ Cardinality(EntriesShown) >= 7
    /\ \E e, f \in EntriesShown : e.id < f.id /\ f.date < e.date
    /\ HasKind("entry", 3, "PageBreak")
    /\ HasKind("entry", 6, "PageBreak")
    /\ ~HasKind("entry", 7, "PageBreak")

----------------------------------------------------------------------------
(* C4  export_pdf: the details table of an entry has a row for an optional   *)
(* field exactly when the field is present on the entry, whatever value it   *)
(* has, and the table is left out exactly when none of the five is present.  *)
(* An empty weather label counts as not present.                             *)

\* the rows of the details table of the block of entry k, <<>> without a table
DetailRowsAt(k) ==
    IF \E j \in Placed("entry", k) : Story[j].kind = "Table"
    THEN Story[CHOOSE j \in Placed("entry", k) : Story[j].kind = "Table"].rows
    ELSE <<>>

HasRow(rows, label) == \E r \in 1..Len(rows) : rows[r][1] = label

C4_RowIffFieldPresent ==
    (last.op = "export_pdf" /\ IsPdf) =>
        LET elist == EntriesOf(Active)
        IN \A k \in 1..Len(elist) :
             LET e == elist[k]
                 rows == DetailRowsAt(k)
             IN /\ HasRow(rows, "Wetter:") <=> TruthyStr(e.weather)
                /\ HasRow(rows, "Temperatur:") <=> e.temperature.some
                /\ HasRow(rows, "Arbeiter:") <=> e.workers_count.some
                /\ HasRow(rows, "Arbeitsstunden:") <=> e.work_hours.some
                /\ HasRow(rows, "Kosten:") <=> e.costs.some
                /\ HasKind("entry", k, "Table") <=>
                      \/ TruthyStr(e.weather)
                      \/ e.temperature.some
                      \/ e.workers_count.some
                      \/ e.work_hours.some
                      \/ e.costs.some

----------------------------------------------------------------------------
(* C5  export_pdf: an image of W x H pixels is shown w x h with w <= 8 cm,   *)
(* h <= 6 cm, one of the two equal to its bound, w * H = h * W, and the      *)
(* width is the clamped side (w = 8 cm, h below 6 cm) exactly when           *)
(* W / H > 8 / 6.                                                            *)

FracLeq(a, b) == a.n * b.d <= b.n * a.d
Cm(n) == [n |-> n, d |-> 1]

FitsBox(img, W, H) ==
    /\ img.width.d > 0 /\ img.height.d > 0
    /\ FracLeq(img.width, Cm(8))
    /\ FracLeq(img.height, Cm(6))
    /\ img.width = Cm(8) \/ img.height = Cm(6)
    /\ img.width.n * H * img.height.d = img.height.n * W * img.width.d
    /\ (img.width = Cm(8) /\ img.height # Cm(6)) <=> (W * 6 > 8 * H)

C5_DisplaySizeFitsBox ==
    (last.op = "export_pdf" /\ IsPdf) =>
        LET plist == PhotosOf(Active)
        IN \A k \in 1..Len(plist) :
             (/\ plist[k].filename \in DOMAIN files
              /\ files[plist[k].filename].readable) =>
                 \E j \in Placed("photo", k) :
                    /\ Story[j].kind = "Table"
                    /\ Story[j].rows[1][1].kind = "Image"
                    /\ FitsBox(Story[j].rows[1][1],
                               files[plist[k].filename].width,
                               files[plist[k].filename].height)

\* a report shows an image wider than the box, with its width clamped
C5_Witness ==
    /\ last.op = "export_pdf"
    /\ \E p \in photos :
         /\ p.filename \in DOMAIN files
         /\ files[p.filename].width * 6 > 8 * files[p.filename].height
         /\ \E j \in Placed("photo", 1) :
              /\ Story[j].kind = "Table"
              /\ Story[j].rows[1][1].width = Cm(8)
              /\ Story[j].rows[1][1].height # Cm(6)

----------------------------------------------------------------------------
(* C6  After any sequence of upload_photo and delete_photo requests, failed  *)
(* ones included, every Photo row has its file in the upload directory and   *)
(* every file of the upload directory belongs to a Photo row.                *)

C6_RecordsAndFilesAgree ==
    /\ \A p \in photos : p.filename \in DOMAIN files
    /\ \A f \in DOMAIN files : \E p \in photos : p.filename = f

----------------------------------------------------------------------------
(* C7  delete_photo of an existing Photo, nothing failing, removes the row   *)
(* and the file and answers 200; so it does when the file was gone already.  *)
(* Whenever delete_photo answers 200, neither the row nor the file is left.  *)

C7_DeleteRemovesRowAndFile ==
    (last.op = "delete_photo" /\ response.status # 404) =>
        /\ last.fault = "none" => response.status = 200
        /\ response.status = 200 =>
              /\ PhotoById(last.id) = {}
              /\ \A f \in DOMAIN files : PathOf(f) # last.path
              /\ response.body.success

\* a Photo whose file was gone already has been deleted, with success
C7_Witness ==
    /\ last.op = "delete_photo"
    /\ last.fault = "none"
    /\ last.path # ""
    /\ ~last.existed
    /\ response.status = 200
    /\ PhotoById(last.id) = {}

----------------------------------------------------------------------------
(* C8  get_stats returns the number of entries, the sum of their costs and   *)
(* the sum of their work-hours, an absent value counting as 0, and answers   *)
(* 200 on no entries with all three 0.  The statistics block of export_pdf   *)
(* shows, for the same store, the count, the cost sum with two decimals and  *)
(* the hours sum as the nearest number with one decimal.                     *)

RECURSIVE SumOfValues(_)
SumOfValues(S) ==
    IF S = {} THEN 0
    ELSE LET r == CHOOSE r \in S : TRUE IN r.v + SumOfValues(S \ {r})

CostSum ==
    SumOfValues({[id |-> e.id, v |-> IF e.costs.some THEN e.costs.v ELSE 0]
                 : e \in EntriesShown})
HourSum ==
    SumOfValues({[id |-> e.id, v |-> IF e.work_hours.some THEN e.work_hours.v ELSE 0]
                 : e \in EntriesShown})

\* the decimal text of c hundredths and of t tenths
HundredthsText(c) == ToString(c \div 100) \o "." \o Pad2(c % 100)
TenthsText(t) == ToString(t \div 10) \o "." \o ToString(t % 10)

\* the value shown beside a label of the statistics block
ShownStat(label) ==
    LET rows == Story[CHOOSE j \in Placed("stats", 0) : Story[j].kind = "Table"].rows
    IN rows[CHOOSE r \in 1..Len(rows) : rows[r][1] = label][2]

StatsAreTotals ==
    last.op = "get_stats" =>
        /\ response.status = 200
        /\ response.body.total_entries = Cardinality(EntriesShown)
        /\ response.body.total_costs = CostSum
        /\ response.body.total_hours = HourSum

\* sums are counted in quarters: a quarter is 25 hundredths, and t tenths are
\* 4 * t / 10 quarters
ShownCountAndCosts ==
    /\ ShownStat("Gesamte Einträge:") = ToString(Cardinality(EntriesShown))
    /\ ShownStat("Gesamtkosten:") = HundredthsText(25 * CostSum) \o " €"

C8_TotalsAndShownTotals ==
    /\ StatsAreTotals
    /\ (last.op = "export_pdf" /\ IsPdf) =>
          /\ ShownCountAndCosts
          /\ \E t \in 0..(3 * HourSum + 1) :
                /\ 2 * t - 5 * HourSum \in {-1, 0, 1}
                /\ 2 * t # 5 * HourSum => t % 2 = 0
                /\ ShownStat("Gesamtarbeitsstunden:") = TenthsText(t) \o " h"

\* the claim as made: the totals shown are the values of get_stats
C8_ShownTotalsEqualStats ==
    /\ StatsAreTotals
    /\ (last.op = "export_pdf" /\ IsPdf) =>
          /\ ShownCountAndCosts
          /\ \E t \in 0..(3 * HourSum + 1) :
                /\ 2 * t = 5 * HourSum
                /\ ShownStat("Gesamtarbeitsstunden:") = TenthsText(t) \o " h"

\* both handlers have answered on entries with and without costs and hours
C8_Witness ==
    /\ last.op = "export_pdf"
    /\ CostSum = 600
    /\ HourSum = 29
    /\ \E e \in EntriesShown : ~e.costs.some
    /\ ShownStat("Gesamtkosten:") = "150.00 €"
    /\ ShownStat("Gesamtarbeitsstunden:") = "7.2 h"

----------------------------------------------------------------------------
(* C9  export_single_entry_pdf with an id that matches no Entry answers      *)
(* with the not-found error (404), returns no document and leaves the store  *)
(* as it was.                                                                *)

C9_UnknownEntryIsNotFound ==
    (last.op = "export_single_entry_pdf" /\ EntryById(last.id) = {}) =>
        /\ response.kind = "json"
        /\ response.status = 404

----------------------------------------------------------------------------
(* C10  The report of one entry has the detail rows, with the same texts,    *)
(* that the full report has for that entry, and has a details table, a       *)
(* materials block and a notes block exactly when the full report has.       *)

PlacedIn(body, part, k) ==
    {j \in 1..Len(body.story) : body.origin[j] = At(part, k)}
HasTableIn(body, part, k) ==
    \E j \in PlacedIn(body, part, k) : body.story[j].kind = "Table"
RowsIn(body, part, k) ==
    IF HasTableIn(body, part, k)
    THEN body.story[CHOOSE j \in PlacedIn(body, part, k) :
                        body.story[j].kind = "Table"].rows
    ELSE <<>>
HasTextIn(body, part, k, text, style) ==
    \E j \in PlacedIn(body, part, k) :
        /\ body.story[j].kind = "Paragraph"
        /\ body.story[j].text = text
        /\ body.story[j].style = style

\* what export_pdf answers in the current state
FullReport ==
    LET items == PdfItems(Active, EntriesOf(Active), PhotosOf(Active))
    IN [story |-> StoryOf(items), origin |-> OriginOf(items)]

\* the number of an entry in the full report
RankOf(id) ==
    LET x == CHOOSE e \in entries : e.id = id
    IN 1 + Cardinality({e \in EntriesShown :
                          \/ e.date < x.date
                          \/ e.date = x.date /\ e.id < x.id})

C10_SingleReportMatchesFull ==
    (last.op = "export_single_entry_pdf" /\ IsPdf) =>
        LET k == RankOf(last.id)
            single == response.body
        IN /\ RowsIn(single, "entry", 1) = RowsIn(FullReport, "entry", k)
           /\ HasTableIn(single, "entry", 1) <=> HasTableIn(FullReport, "entry", k)
           /\ HasTextIn(single, "entry", 1, "Materialien", "Heading2")
                 <=> HasTextIn(FullReport, "entry", k, "<b>Materialien:</b>", "CustomNormal")
           /\ HasTextIn(single, "entry", 1, "Notizen", "Heading2")
                 <=> HasTextIn(FullReport, "entry", k, "<b>Notizen:</b>", "CustomNormal")

\* the report of an entry with costs, materials and an empty note
C10_Witness ==
    /\ last.op = "export_single_entry_pdf"
    /\ IsPdf
    /\ HasRow(RowsIn(response.body, "entry", 1), "Kosten:")
    /\ HasTextIn(response.body, "entry", 1, "Materialien", "Heading2")
    /\ ~HasTextIn(response.body, "entry", 1, "Notizen", "Heading2")

----------------------------------------------------------------------------
(* C11: computing the statistics has no side effects: from every reachable  *)
(* state, the one without a Project row included, a get_stats request       *)
(* leaves the rows of project, entry and photo and the upload directory as  *)
(* they were.                                                               *)
C11_StatsHaveNoSideEffects ==
    [][get_stats => UNCHANGED <<projects, entries, photos, files>>]_vars

----------------------------------------------------------------------------
(* C12: after any sequence of requests the start date of the active project *)
(* is not later than today, and the project days that get_stats returns,    *)
(* (today - start_date) + 1, are at least 1.                                *)
C12_StartDateNotAfterToday ==
    /\ projects # {} => Active.start_date <= today
    /\ last.op = "get_stats" => response.body.project_days >= 1

----------------------------------------------------------------------------
\* the handlers that start with get_or_create_project()
ProjectLookups ==
    {"get_project", "update_project", "get_entries", "create_entry",
     "get_photos", "upload_photo", "get_stats", "export_data", "export_pdf"}

\* the ids of a set of rows
Ids(rows) == {r.id : r \in rows}

(* C13: with requests handled one at a time, at most one Project row exists *)
(* after any sequence of requests.  A Project row appears only in a request *)
(* that calls get_or_create_project on an empty table, and it carries the   *)
(* default values (update_project then applies its changes to it); on a     *)
(* table that has a row the lookup returns that row and changes nothing;    *)
(* no request removes a Project row or adds a second one.                   *)
C13_AtMostOneProject ==
    /\ [](Cardinality(projects) <= 1)
    /\ [][/\ projects = {} /\ projects' # {} =>
                /\ last'.op \in ProjectLookups
                /\ Ids(projects') = {1}
                /\ last'.op # "update_project" => projects' = {DefaultProject(1)}
          /\ projects # {} =>
                /\ Ids(projects') = Ids(projects)
                /\ last'.op # "update_project" => projects' = projects
                /\ last'.op = "get_project" =>
                       response'.body = ProjectJson(FirstProject(projects))
         ]_vars

\* a request looked the project up after it had been renamed, and the renamed
\* row is still the only one
C13_Witness ==
    /\ last.op = "create_entry"
    /\ response.status = 200
    /\ Cardinality(projects) = 1
    /\ Active.name = "Haus am See"

----------------------------------------------------------------------------
(* C14: an Entry is never changed once it is created.  In every step an     *)
(* Entry that exists before and whose id exists after is the same row with  *)
(* the same field values; only create_entry and delete_entry change the set *)
(* of Entries: a create_entry that succeeds adds exactly one row with a new *)
(* id, a delete_entry only removes the row of its id, and a create_entry    *)
(* that fails (answer 400) leaves the set of Entries as it was.             *)
C14_EntriesAreImmutable ==
    [][/\ \A e \in entries, f \in entries' : e.id = f.id => e = f
       /\ entries' # entries => last'.op \in {"create_entry", "delete_entry"}
       /\ last'.op = "create_entry" /\ response'.status = 200 =>
             /\ entries \subseteq entries'
             /\ Cardinality(entries' \ entries) = 1
             /\ Cardinality(Ids(entries')) = Cardinality(entries')
       /\ last'.op = "create_entry" /\ response'.status # 200 =>
             entries' = entries
       /\ last'.op = "delete_entry" =>
             entries' = {e \in entries : e.id # last'.id}
      ]_vars

\* a create_entry without the content key failed on a diary that holds an
\* entry, which still has the values it was created with
C14_Witness ==
    /\ last.op = "create_entry"
    /\ response.status = 400
    /\ response.body.error = "content"
    /\ \E e \in entries :
          /\ e.id = 1
          /\ e.date = 2
          /\ e.content = "Fundament gegossen"
          /\ e.weather = SomeStr("Sonnig")
          /\ e.costs = SomeNum(402)

====
